---- MODULE Spec2Model ----
\* A model of sms_wsj/database/database.py: the AudioReader configuration
\* (dataclass fields and __post_init__), the recursive stream loader
\* (_rec_audio_read) and the per-example transform (__call__).
EXTENDS Integers, Sequences, FiniteSets, TLC

VARIABLES
    passed,   \* the eight keyword arguments given to AudioReader(...)
    cfg,      \* the fields of the AudioReader instance (self)
    pc,       \* "init": fields assigned, __post_init__ not yet run;
              \* "ready": constructed; "returned" / "raised": __call__ ended
    ragged,   \* TRUE iff the installed numpy builds an object array from a
              \* ragged list (numpy < 1.24); FALSE iff it raises ValueError
    heap,     \* the record objects: heap[1] is the object passed to __call__
    arg,      \* the value of the passed record when __call__ was entered
    ret,      \* the object __call__ returned (an index of heap), 0 if none
    err       \* the exception that left __call__, NoExc if none

vars == <<passed, cfg, pc, ragged, heap, arg, ret, err>>

--------------------------------------------------------------------------
\* Bounds of the model.

\* speech offsets range over -MaxOffset .. MaxOffset
MaxOffset == 3
\* num_samples['observation'] ranges over 0 .. MaxT
MaxT == 4

--------------------------------------------------------------------------
\* numpy arrays.  An ndarray is its shape and its elements in row-major
\* (C) order; an object array of shape (n,) is the sequence of its items.

Nd(shape, data) == [tag |-> "nd", shape |-> shape, data |-> data]
Obj(items) == [tag |-> "obj", items |-> items]
Map(items) == [tag |-> "map", items |-> items]
Exc(kind, what) == [tag |-> "exc", kind |-> kind, what |-> what]
NoExc == [tag |-> "none", kind |-> "none", what |-> "none"]

IsExc(v) == v.tag = "exc"

Max(a, b) == IF a >= b THEN a ELSE b
Min(a, b) == IF a <= b THEN a ELSE b

RECURSIVE Prod(_)
Prod(s) == IF s = <<>> THEN 1 ELSE Head(s) * Prod(Tail(s))

RECURSIVE Concat(_)
Concat(ss) == IF ss = <<>> THEN <<>> ELSE Head(ss) \o Concat(Tail(ss))

\* 0-based multi-index of the 0-based flat position k in an array of `shape`
RECURSIVE Unravel(_, _)
Unravel(shape, k) ==
    IF shape = <<>> THEN <<>>
    ELSE LET inner == Prod(Tail(shape))
         IN  <<k \div inner>> \o Unravel(Tail(shape), k % inner)

\* 0-based flat position of the 0-based multi-index idx
RECURSIVE Ravel(_, _)
Ravel(shape, idx) ==
    IF shape = <<>> THEN 0
    ELSE Head(idx) * Prod(Tail(shape)) + Ravel(Tail(shape), Tail(idx))

\* a[idx] for a full 0-based multi-index
At(a, idx) == a.data[Ravel(a.shape, idx) + 1]

\* ndarray.T: the axes reversed.  soundfile gives 1-D data for a mono file
\* and (samples, channels) data otherwise, so only these two ranks occur.
TransposeSwapped(a) ==
    IF Len(a.shape) = 2
    THEN Nd(<<a.shape[2], a.shape[1]>>, a.data)
    ELSE a

Transpose(a) ==
    IF Len(a.shape) = 2
    THEN LET S == a.shape[1]
             C == a.shape[2]
         IN  Nd(<<C, S>>,
                [k \in 1..(S * C) |->
                    a.data[((k - 1) % S) * C + ((k - 1) \div S) + 1]])
    ELSE a

\* the length of the leading dimension, and the i-th entry along it (1-based)
LeadLen(v) == IF v.tag = "nd" THEN v.shape[1] ELSE Len(v.items)

Entry(v, i) ==
    IF v.tag = "nd"
    THEN LET inner == Prod(Tail(v.shape))
         IN  Nd(Tail(v.shape),
                [k \in 1..inner |-> v.data[(i - 1) * inner + k]])
    ELSE v.items[i]

\* np.array(list of loaded values)
AllNd(rs) == \A i \in DOMAIN rs : rs[i].tag = "nd"
SameShape(rs) == \A i, j \in DOMAIN rs : rs[i].shape = rs[j].shape
Stackable(rs) ==
    \/ AllNd(rs) /\ SameShape(rs)
    \/ \A i \in DOMAIN rs : rs[i].tag = "map"
    \/ /\ \A i \in DOMAIN rs : rs[i].tag = "obj"
       /\ \A i, j \in DOMAIN rs : Len(rs[i].items) = Len(rs[j].items)

NpArray(rs) ==
    IF rs = <<>> THEN Nd(<<0>>, <<>>)
    ELSE IF AllNd(rs) /\ SameShape(rs)
    THEN Nd(<<Len(rs)>> \o rs[1].shape,
            Concat([i \in 1..Len(rs) |-> rs[i].data]))
    ELSE IF Stackable(rs) THEN Obj(rs)
    \* ragged from here on
    ELSE IF AllNd(rs) /\ \A i, j \in DOMAIN rs : rs[i].shape[1] = rs[j].shape[1]
    THEN Exc("ValueError", "could not broadcast input array")
    ELSE IF ragged THEN Obj(rs)
    ELSE Exc("ValueError", "inhomogeneous shape")

--------------------------------------------------------------------------
\* The audio files.  soundfile.read(file) gives the file's data as stored:
\* 1-D (samples,) for a mono file, 2-D (samples, channels) otherwise; it
\* raises RuntimeError for a file that is missing or malformed.

Files == {"m3a", "m3b", "m2", "s3a", "s3b", "s2", "s1a", "s1b", "gone"}

SoundfileRead(file) ==
    CASE file = "m3a" -> Nd(<<3>>, <<1, 2, 3>>)
      [] file = "m3b" -> Nd(<<3>>, <<4, 5, 6>>)
      [] file = "m2"  -> Nd(<<2>>, <<7, 8>>)
      [] file = "s3a" -> Nd(<<3, 2>>, <<11, 12, 21, 22, 31, 32>>)
      [] file = "s3b" -> Nd(<<3, 2>>, <<13, 14, 23, 24, 33, 34>>)
      [] file = "s2"  -> Nd(<<2, 2>>, <<15, 16, 25, 26>>)
      [] file = "s1a" -> Nd(<<1, 2>>, <<17, 18>>)
      [] file = "s1b" -> Nd(<<1, 2>>, <<19, 20>>)
      [] OTHER        -> Exc("RuntimeError", file)

\* File references: a path, a list or tuple of references, or a dict of
\* references (keys in insertion order).
Leaf(file) == [tag |-> "leaf", file |-> file]
List(items) == [tag |-> "seq", items |-> items]
Dict(keys, items) == [tag |-> "dict", keys |-> keys, items |-> items]

\* the first exception among the results rs, taken in the order given
FirstExc(rs) == rs[CHOOSE i \in DOMAIN rs :
                      IsExc(rs[i]) /\ \A j \in 1..(i - 1) : ~IsExc(rs[j])]

\* AudioReader._rec_audio_read
RECURSIVE _rec_audio_read(_)
_rec_audio_read(file) ==
    IF file.tag = "seq"
    THEN LET rs == [i \in 1..Len(file.items) |-> _rec_audio_read(file.items[i])]
         IN  IF \E i \in DOMAIN rs : IsExc(rs[i])
             THEN FirstExc(rs)
             ELSE NpArray(rs)
    ELSE IF file.tag = "dict"
    THEN LET rs == [i \in 1..Len(file.keys) |->
                        _rec_audio_read(file.items[file.keys[i]])]
         IN  IF \E i \in DOMAIN rs : IsExc(rs[i])
             THEN FirstExc(rs)
             ELSE Map([k \in DOMAIN file.items |->
                          _rec_audio_read(file.items[k])])
    ELSE LET data == SoundfileRead(file.file)
         IN  IF IsExc(data) THEN data ELSE Transpose(data)

--------------------------------------------------------------------------
\* numpy's + on two loaded values (lines 172-175).  Two ndarrays are
\* broadcast against each other: the shapes are aligned at the trailing
\* dimension and a dimension of size 1 is stretched; shapes that do not
\* broadcast raise ValueError.  A dict operand raises TypeError.  (The
\* reverberation references of Examples never load to object arrays.)

PadShape(s, n) ==
    [i \in 1..n |-> IF i <= n - Len(s) THEN 1 ELSE s[i - (n - Len(s))]]

Broadcastable(sa, sb) ==
    LET n == Max(Len(sa), Len(sb))
    IN  \A i \in 1..n :
            \/ PadShape(sa, n)[i] = PadShape(sb, n)[i]
            \/ PadShape(sa, n)[i] = 1
            \/ PadShape(sb, n)[i] = 1

BroadcastShape(sa, sb) ==
    LET n == Max(Len(sa), Len(sb))
    IN  [i \in 1..n |-> IF PadShape(sa, n)[i] = 1
                        THEN PadShape(sb, n)[i]
                        ELSE PadShape(sa, n)[i]]

\* the element of a that the broadcast puts at index idx of the result
Stretched(a, idx) ==
    LET d == Len(idx) - Len(a.shape)
    IN  At(a, [i \in 1..Len(a.shape) |->
                  IF a.shape[i] = 1 THEN 0 ELSE idx[i + d]])

Add(a, b) ==
    IF a.tag = "nd" /\ b.tag = "nd"
    THEN IF Broadcastable(a.shape, b.shape)
         THEN LET shape == BroadcastShape(a.shape, b.shape)
              IN  Nd(shape,
                     [k \in 1..Prod(shape) |->
                         Stretched(a, Unravel(shape, k - 1))
                         + Stretched(b, Unravel(shape, k - 1))])
         ELSE Exc("ValueError", "operands could not be broadcast together")
    ELSE Exc("TypeError", "unsupported operand type(s) for +")

--------------------------------------------------------------------------
\* sms_wsj.database.utils.synchronize_speech_source, which __call__ imports
\* at line 157: one row per source, each of length T, the source placed at
\* its offset, cropped to the window [0, T) and padded with zeros.

\* the 1-D sources of a loaded speech_source value, as sequences of samples
Sources(v) ==
    IF v.tag = "nd"
    THEN IF v.shape = <<0>>
         THEN <<>>          \* np.array([]): no speakers
         ELSE [s \in 1..v.shape[1] |-> Entry(v, s).data]
    ELSE [s \in 1..Len(v.items) |-> v.items[s].data]

extract_piece(x, o, T) ==
    LET lo == Max(0, -o)
        hi == Min(Len(x), T - o)
    IN  [i \in 1..T |->
            IF hi > lo /\ o + lo <= i - 1 /\ i - 1 < o + hi
            THEN x[(i - 1 - o) + 1]
            ELSE 0]

synchronize_speech_source(original_source, offset, T) ==
    LET xs == Sources(original_source)
    IN  IF Len(xs) # Len(offset)
        THEN Exc("ValueError", "sources and offsets differ in length")
        ELSE Nd(<<Len(xs), T>>,
                Concat([s \in 1..Len(xs) |-> extract_piece(xs[s], offset[s], T)]))

--------------------------------------------------------------------------
\* The AudioReader dataclass: its fields, their defaults, __post_init__.

Flags == {"observation", "speech_source", "sync_speech_source",
          "speech_reverberation_early", "speech_reverberation_tail",
          "speech_image", "noise_image", "rir"}

Defaults == [f \in Flags |-> f # "rir"]

__post_init__Early(self) ==
    IF self.speech_image
    THEN [self EXCEPT !.speech_reverberation_early = TRUE]
    ELSE self

__post_init__(self) ==
    IF self.speech_image
    THEN [self EXCEPT !.speech_reverberation_early = TRUE,
                      !.speech_reverberation_tail = TRUE]
    ELSE self

--------------------------------------------------------------------------
\* AudioReader.__call__.  A dict is a function on its keys; d[k] on a key
\* that is absent raises KeyError.  The statements run in order and the
\* first exception ends the call: st is the local dict `data` together with
\* the exception raised so far.

Put(d, k, v) == [x \in DOMAIN d \cup {k} |-> IF x = k THEN v ELSE d[x]]
Without(d, k) == [x \in DOMAIN d \ {k} |-> d[x]]

Raise(st, e) == [st EXCEPT !.exc = e]
Store(st, k, v) == [st EXCEPT !.data = Put(@, k, v)]

\* `if enabled: data[key] = self._rec_audio_read(path[key])`
Read(st, enabled, path, key) ==
    IF st.exc # NoExc \/ ~enabled THEN st
    ELSE IF key \notin DOMAIN path THEN Raise(st, Exc("KeyError", key))
    ELSE LET v == _rec_audio_read(path[key])
         IN  IF IsExc(v) THEN Raise(st, v) ELSE Store(st, key, v)

\* lines 156-162
SyncWhenever(self, example, st) ==
    IF st.exc # NoExc \/ ~self.speech_source THEN st
    ELSE IF "offset" \notin DOMAIN example
    THEN Raise(st, Exc("KeyError", "offset"))
    ELSE IF "num_samples" \notin DOMAIN example
    THEN Raise(st, Exc("KeyError", "num_samples"))
    ELSE IF "observation" \notin DOMAIN example.num_samples
    THEN Raise(st, Exc("KeyError", "observation"))
    ELSE LET r == synchronize_speech_source(st.data.speech_source,
                      example.offset, example.num_samples.observation)
         IN  IF IsExc(r) THEN Raise(st, r) ELSE Store(st, "speech_source", r)

SyncToSourceLength(self, example, st) ==
    IF st.exc # NoExc \/ ~(self.speech_source /\ self.sync_speech_source) THEN st
    ELSE IF "offset" \notin DOMAIN example
    THEN Raise(st, Exc("KeyError", "offset"))
    ELSE IF "num_samples" \notin DOMAIN example
    THEN Raise(st, Exc("KeyError", "num_samples"))
    ELSE IF "speech_source" \notin DOMAIN example.num_samples
    THEN Raise(st, Exc("KeyError", "speech_source"))
    ELSE IF example.num_samples.speech_source = <<>>
    THEN Raise(st, Exc("IndexError", "list index out of range"))
    ELSE LET r == synchronize_speech_source(st.data.speech_source,
                      example.offset, example.num_samples.speech_source[1])
         IN  IF IsExc(r) THEN Raise(st, r) ELSE Store(st, "speech_source", r)

Sync(self, example, st) ==
    IF st.exc # NoExc \/ ~(self.speech_source /\ self.sync_speech_source) THEN st
    ELSE IF "offset" \notin DOMAIN example
    THEN Raise(st, Exc("KeyError", "offset"))
    ELSE IF "num_samples" \notin DOMAIN example
    THEN Raise(st, Exc("KeyError", "num_samples"))
    ELSE IF "observation" \notin DOMAIN example.num_samples
    THEN Raise(st, Exc("KeyError", "observation"))
    ELSE LET r == synchronize_speech_source(st.data.speech_source,
                      example.offset, example.num_samples.observation)
         IN  IF IsExc(r) THEN Raise(st, r) ELSE Store(st, "speech_source", r)

\* lines 171-175
Image(self, st) ==
    IF st.exc # NoExc \/ ~self.speech_image THEN st
    ELSE IF "speech_reverberation_early" \notin DOMAIN st.data
    THEN Raise(st, Exc("KeyError", "speech_reverberation_early"))
    ELSE IF "speech_reverberation_tail" \notin DOMAIN st.data
    THEN Raise(st, Exc("KeyError", "speech_reverberation_tail"))
    ELSE LET r == Add(st.data.speech_reverberation_early,
                      st.data.speech_reverberation_tail)
         IN  IF IsExc(r) THEN Raise(st, r) ELSE Store(st, "speech_image", r)

\* lines 149-181: the local dict `data` when line 183 is reached, or the
\* exception raised before it
Body(self, example) ==
    LET s0 == [data |-> <<>>, exc |-> NoExc]
    IN  IF "audio_path" \notin DOMAIN example
        THEN Raise(s0, Exc("KeyError", "audio_path"))
        ELSE
        LET path == example.audio_path
            s1 == Read(s0, self.observation, path, "observation")
            s2 == Read(s1, self.speech_source, path, "speech_source")
            s3 == Sync(self, example, s2)
            s4 == Read(s3, self.speech_reverberation_early, path,
                       "speech_reverberation_early")
            s5 == Read(s4, self.speech_reverberation_tail, path,
                       "speech_reverberation_tail")
            s6 == Image(self, s5)
            s7 == Read(s6, self.noise_image, path, "noise_image")
        IN  Read(s7, self.rir, path, "rir")

--------------------------------------------------------------------------
\* The example records the reader is applied to.

Mono3 == List(<<Leaf("m3a"), Leaf("m3b")>>)
Stereo3 == List(<<Leaf("s3a"), Leaf("s3b")>>)
ADict == Dict(<<"left", "right">>, [left |-> Leaf("s3a"), right |-> Mono3])

\* references of any nesting, for the streams that are only loaded
RefOptions ==
    { Leaf("s3a"), Leaf("m3a"), Leaf("gone"),
      List(<<>>), List(<<Leaf("s2")>>), Mono3, Stereo3,
      List(<<Leaf("m3a"), Leaf("m2")>>),
      List(<<Leaf("m2"), Leaf("m3a"), Leaf("m3b")>>),
      List(<<Leaf("s3a"), Leaf("s2")>>),
      List(<<Leaf("s3a"), Leaf("gone")>>),
      List(<<Mono3, List(<<Leaf("m3b"), Leaf("m3a")>>)>>),
      ADict,
      Dict(<<"right", "left">>, [left |-> Leaf("gone"), right |-> Stereo3]),
      Dict(<<"a">>, [a |-> ADict]),
      List(<<ADict, ADict>>),
      List(<<List(<<Leaf("m3a"), Leaf("m2")>>),
             List(<<Leaf("m3b"), Leaf("m2")>>)>>) }

\* references of the per-speaker dry sources: lists of mono files
SourceOptions ==
    { Mono3, List(<<Leaf("m3a"), Leaf("m2")>>), List(<<Leaf("m2")>>),
      List(<<>>), List(<<Leaf("m3a"), Leaf("gone")>>) }

\* references of the reverberation components
ReverbOptions ==
    { Stereo3, List(<<Leaf("s3b"), Leaf("s3a")>>),
      List(<<Leaf("s1a"), Leaf("s1b")>>), List(<<Leaf("s2"), Leaf("s2")>>),
      List(<<Leaf("s3a")>>), Leaf("s3a"), Mono3, ADict,
      List(<<Leaf("s3a"), Leaf("gone")>>) }

\* an audio_path as __call__ reads it
BasePath ==
    [observation |-> Leaf("s3a"),
     speech_source |-> Mono3,
     speech_reverberation_early |-> Stereo3,
     speech_reverberation_tail |-> List(<<Leaf("s3b"), Leaf("s3a")>>),
     noise_image |-> Leaf("s3b"),
     rir |-> List(<<Leaf("s2"), Leaf("s2")>>)]

\* the audio_path of a catalog record as the SmsWsj docstring prints it
CatalogPath ==
    [noise_image |-> Leaf("s3b"),
     observation |-> Leaf("s3a"),
     rir |-> List(<<Leaf("s2"), Leaf("s2")>>),
     speech_reverberation_direct |-> Stereo3,
     speech_reverberation_tail |-> List(<<Leaf("s3b"), Leaf("s3a")>>),
     speech_source |-> Mono3]

Paths ==
    {BasePath, CatalogPath}
    \cup {[BasePath EXCEPT !.rir = r] : r \in RefOptions}
    \cup {[BasePath EXCEPT !.observation = r] : r \in RefOptions}
    \cup {[BasePath EXCEPT !.noise_image = Leaf("gone")]}
    \cup {[BasePath EXCEPT !.speech_source = r] : r \in SourceOptions}
    \cup {[BasePath EXCEPT !.speech_reverberation_early = r] :
              r \in ReverbOptions}
    \cup {[BasePath EXCEPT !.speech_reverberation_tail = r] :
              r \in ReverbOptions}
    \cup {Without(BasePath, k) : k \in DOMAIN BasePath}

Record(path, offset, T) ==
    [audio_path |-> path,
     offset |-> offset,
     num_samples |-> [observation |-> T, speech_source |-> <<3, 3>>],
     num_speakers |-> 2,
     example_id |-> "4k0c0301_4k6c030t_0"]

\* a bundle left in the record by an earlier pass
StaleBundle == [observation |-> Nd(<<1, 1>>, <<99>>)]

Examples ==
    LET base == Record(BasePath, <<0, 1>>, 4)
    IN  {Record(p, <<0, 1>>, 4) : p \in Paths}
        \cup {Put(Record(p, <<0, 1>>, 4), "audio_data", StaleBundle) :
                 p \in {BasePath, CatalogPath,
                        [BasePath EXCEPT !.noise_image = Leaf("gone")]}}
        \cup {Without(base, k) : k \in DOMAIN base}
        \cup {[base EXCEPT !.num_samples = [speech_source |-> <<3, 3>>]]}
        \cup {Record(BasePath, <<-1, 2>>, T) : T \in {0, 2}}

Offsets(n) == [1..n -> (-MaxOffset)..MaxOffset]

SyncExamples ==
    {Record([BasePath EXCEPT !.speech_source = r], o, T) :
        r \in {Mono3, List(<<Leaf("m3a"), Leaf("m2")>>)},
        o \in Offsets(2), T \in 0..MaxT}
    \cup {Record([BasePath EXCEPT !.speech_source = r], o, T) :
        r \in {List(<<Leaf("m2")>>), Mono3},
        o \in Offsets(1), T \in 0..MaxT}
    \cup {Record([BasePath EXCEPT !.speech_source = List(<<>>)], <<>>, T) :
        T \in 0..MaxT}

--------------------------------------------------------------------------
\* The operations.

\* AudioReader(**passed): the dataclass __init__ has assigned the fields
Init ==
    /\ passed \in [Flags -> BOOLEAN]
    /\ cfg = passed
    /\ pc = "init"
    /\ ragged \in BOOLEAN
    /\ heap = <<>>
    /\ arg = <<>>
    /\ ret = 0
    /\ err = NoExc

\* AudioReader(...) with the source stream selected, synchronized or not,
\* and every other flag at its default or off
InitSync ==
    /\ passed \in {f \in [Flags -> BOOLEAN] :
                      /\ f.speech_source
                      /\ ~f.rir
                      /\ \A g \in Flags \ {"speech_source", "sync_speech_source", "rir"} :
                             f[g] = f.observation}
    /\ cfg = passed
    /\ pc = "init"
    /\ ragged \in BOOLEAN
    /\ heap = <<>>
    /\ arg = <<>>
    /\ ret = 0
    /\ err = NoExc

PostInit ==
    /\ pc = "init"
    /\ cfg' = __post_init__(cfg)
    /\ pc' = "ready"
    /\ UNCHANGED <<passed, ragged, heap, arg, ret, err>>

\* __call__(example): an exception raised in lines 149-181 leaves the call;
\* otherwise line 183 stores the bundle in the record that was passed and
\* line 185 returns that record
CallCopy(E) ==
    /\ pc = "ready"
    /\ \E example \in E :
          LET st == Body(cfg, example)
          IN  /\ arg' = example
              /\ IF st.exc = NoExc
                 THEN /\ heap' = <<example, Put(example, "audio_data", st.data)>>
                      /\ ret' = 2
                      /\ err' = NoExc
                      /\ pc' = "returned"
                 ELSE /\ heap' = <<example>>
                      /\ ret' = 0
                      /\ err' = st.exc
                      /\ pc' = "raised"
    /\ UNCHANGED <<passed, cfg, ragged>>

CallBundleOnly(E) ==
    /\ pc = "ready"
    /\ \E example \in E :
          LET st == Body(cfg, example)
          IN  /\ arg' = example
              /\ IF st.exc = NoExc
                 THEN /\ heap' = <<[k \in {"audio_data"} |-> st.data]>>
                      /\ ret' = 1
                      /\ err' = NoExc
                      /\ pc' = "returned"
                 ELSE /\ heap' = <<example>>
                      /\ ret' = 0
                      /\ err' = st.exc
                      /\ pc' = "raised"
    /\ UNCHANGED <<passed, cfg, ragged>>

CallStoreFirst(E) ==
    /\ pc = "ready"
    /\ \E example \in E :
          LET st == Body(cfg, example)
          IN  /\ arg' = example
              /\ heap' = <<Put(example, "audio_data", st.data)>>
              /\ IF st.exc = NoExc
                 THEN /\ ret' = 1
                      /\ err' = NoExc
                      /\ pc' = "returned"
                 ELSE /\ ret' = 0
                      /\ err' = st.exc
                      /\ pc' = "raised"
    /\ UNCHANGED <<passed, cfg, ragged>>

Call(E) ==
    /\ pc = "ready"
    /\ \E example \in E :
          LET st == Body(cfg, example)
          IN  /\ arg' = example
              /\ IF st.exc = NoExc
                 THEN /\ heap' = <<Put(example, "audio_data", st.data)>>
                      /\ ret' = 1
                      /\ err' = NoExc
                      /\ pc' = "returned"
                 ELSE /\ heap' = <<example>>
                      /\ ret' = 0
                      /\ err' = st.exc
                      /\ pc' = "raised"
    /\ UNCHANGED <<passed, cfg, ragged>>

Next ==
    \/ PostInit
    \/ Call(Examples)

NextSync ==
    \/ PostInit
    \/ Call(SyncExamples)

Spec == Init /\ [][Next]_vars

SpecSync == InitSync /\ [][NextSync]_vars

--------------------------------------------------------------------------
\* Vocabulary of the properties.

Returned == pc = "returned"
Raised == pc = "raised"
Ended == Returned \/ Raised

\* the bundle of the returned record, and the paths of the passed record
Bundle == heap[ret].audio_data
PathOf == arg.audio_path
Loaded(k) == _rec_audio_read(PathOf[k])

\* the flags that name a stream read from audio_path
StreamKeys == Flags \ {"sync_speech_source", "speech_image"}
\* the keys a completed bundle holds under configuration self
OutputKeys(self) == {k \in Flags \ {"sync_speech_source"} : self[k]}

Indices(shape) == {Unravel(shape, k) : k \in 0..(Prod(shape) - 1)}

--------------------------------------------------------------------------
\* C1: once the reader is constructed, speech_image enabled implies both
\* reverberation flags enabled; every other flag has the value passed, and
\* with speech_image disabled the reverberation flags have the values passed.
C1_DerivedEnablement ==
    pc # "init" =>
        /\ cfg.speech_image =>
              cfg.speech_reverberation_early /\ cfg.speech_reverberation_tail
        /\ \A f \in Flags \ {"speech_reverberation_early",
                             "speech_reverberation_tail"} : cfg[f] = passed[f]
        /\ ~cfg.speech_image =>
              /\ cfg.speech_reverberation_early = passed.speech_reverberation_early
              /\ cfg.speech_reverberation_tail = passed.speech_reverberation_tail

C1_Witness ==
    /\ pc = "ready"
    /\ passed.speech_image
    /\ ~passed.speech_reverberation_early
    /\ ~passed.speech_reverberation_tail
    /\ cfg.speech_reverberation_early
    /\ cfg.speech_reverberation_tail

--------------------------------------------------------------------------
\* C2: whenever the transform completes with speech_image enabled, the bundle
\* holds the two reverberation components exactly as loaded and the speech
\* image, and every element of the speech image is the sum of the elements of
\* early and tail at the same (speaker, channel, sample) index.
C2_ImageIsElementwiseSum ==
    Returned /\ cfg.speech_image =>
        /\ {"speech_reverberation_early", "speech_reverberation_tail",
            "speech_image"} \subseteq DOMAIN Bundle
        /\ Bundle.speech_reverberation_early = Loaded("speech_reverberation_early")
        /\ Bundle.speech_reverberation_tail = Loaded("speech_reverberation_tail")
        /\ LET early == Bundle.speech_reverberation_early
               tail == Bundle.speech_reverberation_tail
               image == Bundle.speech_image
           IN  \A idx \in Indices(image.shape) :
                   /\ idx \in Indices(early.shape)
                   /\ idx \in Indices(tail.shape)
                   /\ At(image, idx) = At(early, idx) + At(tail, idx)

--------------------------------------------------------------------------
\* C3: the synchronized speech_source has one row per source and T columns;
\* row s holds x[i - o] at every i with max(0, o) <= i < min(T, o + L) and 0
\* at every other i of [0, T), for the source x of length L at offset o.
C3_SynchronizedPlacement ==
    Returned /\ cfg.speech_source /\ cfg.sync_speech_source =>
        LET xs == Sources(Loaded("speech_source"))
            T == arg.num_samples.observation
            out == Bundle.speech_source
        IN  /\ out.shape = <<Len(xs), T>>
            /\ Len(out.data) = Len(xs) * T
            /\ \A s \in 1..Len(xs) : \A i \in 0..(T - 1) :
                  LET o == arg.offset[s]
                      L == Len(xs[s])
                  IN  At(out, <<s - 1, i>>) =
                         IF Max(0, o) <= i /\ i < Min(T, o + L)
                         THEN xs[s][i - o + 1]
                         ELSE 0

\* one source cropped at the front, another wholly outside the window
C3_Witness ==
    /\ Returned /\ cfg.speech_source /\ cfg.sync_speech_source
    /\ Len(arg.offset) = 2
    /\ arg.num_samples.observation = 2
    /\ arg.offset[1] = -2
    /\ arg.offset[2] >= 2
    /\ Bundle.speech_source.data = <<3, 0, 0, 0>>

--------------------------------------------------------------------------
\* C4: a failing load of any enabled stream makes the call raise; a call that
\* raised returned no record and left the passed record exactly as it was.
LoadFails(k) == k \notin DOMAIN PathOf \/ IsExc(Loaded(k))

C4_AllOrNothing ==
    /\ Ended /\ "audio_path" \in DOMAIN arg
          /\ (\E k \in StreamKeys : cfg[k] /\ LoadFails(k))
       => Raised
    /\ Raised => err # NoExc /\ ret = 0 /\ heap = <<arg>>

\* the last stream read fails after the earlier ones were loaded
C4_Witness ==
    /\ Raised
    /\ "audio_path" \in DOMAIN arg
    /\ cfg.observation /\ ~LoadFails("observation")
    /\ cfg.speech_image /\ cfg.noise_image
    /\ err = Exc("RuntimeError", "gone")
    /\ PathOf.noise_image = Leaf("gone")
    /\ "audio_data" \notin DOMAIN heap[1]

--------------------------------------------------------------------------
\* C5 as stated: after the call completes the record that was passed is
\* unchanged.
C5_PassedRecordUnchanged ==
    Returned => heap[1] = arg

\* C5 as amended: the call returns the very record it was passed, and that
\* record now carries the bundle under audio_data with its other fields
\* unchanged.
C5_UpdatedInPlace ==
    Returned =>
        /\ ret = 1 /\ Len(heap) = 1
        /\ DOMAIN heap[1] = DOMAIN arg \cup {"audio_data"}
        /\ \A f \in DOMAIN arg \ {"audio_data"} : heap[1][f] = arg[f]
        /\ DOMAIN heap[1].audio_data = OutputKeys(cfg)

C5_Witness ==
    /\ Returned
    /\ "audio_data" \notin DOMAIN arg
    /\ "audio_data" \in DOMAIN heap[1]
    /\ ret = 1

--------------------------------------------------------------------------
\* C6 as stated: every field of the input record, audio_data included, is in
\* the returned record with the value it had.
C6_EveryFieldPreserved ==
    Returned =>
        \A f \in DOMAIN arg : f \in DOMAIN heap[ret] /\ heap[ret][f] = arg[f]

\* C6 as amended: every field other than audio_data is in the returned record
\* with the value it had; audio_data holds the new bundle, which replaces the
\* value an input record already had under that name.
C6_OtherFieldsPreserved ==
    Returned =>
        /\ \A f \in DOMAIN arg \ {"audio_data"} :
              f \in DOMAIN heap[ret] /\ heap[ret][f] = arg[f]
        /\ "audio_data" \in DOMAIN heap[ret]
        /\ \A k \in DOMAIN Bundle \cap {"observation", "noise_image", "rir"} :
              Bundle[k] = Loaded(k)

C6_Witness ==
    /\ Returned
    /\ "audio_data" \in DOMAIN arg
    /\ cfg.noise_image
    /\ "noise_image" \notin DOMAIN arg.audio_data
    /\ "noise_image" \in DOMAIN Bundle
    /\ heap[ret].example_id = arg.example_id

--------------------------------------------------------------------------
\* C7: with speech_image enabled, reverberation components of different
\* shapes make the composition fail, so a call that completed and produced a
\* speech image had components of one shape.
C7_MismatchNeverBroadcast ==
    Returned /\ cfg.speech_image =>
        Bundle.speech_reverberation_early.shape
            = Bundle.speech_reverberation_tail.shape

--------------------------------------------------------------------------
\* C8: the loaded value keeps the nesting of the reference: a path gives the
\* transpose of the file's data, a sequence of n references a value of
\* leading dimension n whose i-th entry is the load of the i-th reference, a
\* mapping a mapping on the same keys whose values are the loads.
RECURSIVE Faithful(_, _)
Faithful(ref, v) ==
    IF ref.tag = "seq"
    THEN /\ v.tag \in {"nd", "obj"}
         /\ LeadLen(v) = Len(ref.items)
         /\ \A i \in 1..Len(ref.items) : Faithful(ref.items[i], Entry(v, i))
    ELSE IF ref.tag = "dict"
    THEN /\ v.tag = "map"
         /\ DOMAIN v.items = DOMAIN ref.items
         /\ \A k \in DOMAIN ref.items : Faithful(ref.items[k], v.items[k])
    ELSE LET d == SoundfileRead(ref.file)
         IN  /\ ~IsExc(d)
             /\ v.tag = "nd"
             /\ IF Len(d.shape) = 2
                THEN /\ v.shape = <<d.shape[2], d.shape[1]>>
                     /\ Len(v.data) = Len(d.data)
                     /\ \A s \in 0..(d.shape[1] - 1), c \in 0..(d.shape[2] - 1) :
                           At(v, <<c, s>>) = At(d, <<s, c>>)
                ELSE v = d

RECURSIVE Readable(_)
Readable(ref) ==
    IF ref.tag = "seq"
    THEN \A i \in 1..Len(ref.items) : Readable(ref.items[i])
    ELSE IF ref.tag = "dict"
    THEN \A k \in DOMAIN ref.items : Readable(ref.items[k])
    ELSE ~IsExc(SoundfileRead(ref.file))

\* the streams whose bundle entry is the loader's result as it stands
Unprocessed(self) ==
    {k \in StreamKeys : self[k]
        /\ (k = "speech_source" => ~self.sync_speech_source)}

--------------------------------------------------------------------------
\* C9: a default-constructed reader applied to a record as the catalog prints
\* it completes, and the bundle holds exactly the six documented entries.
C9_DefaultReaderOnCatalogRecord ==
    Ended /\ passed = Defaults /\ arg = Record(CatalogPath, <<0, 1>>, 4) =>
        /\ Returned
        /\ DOMAIN Bundle = {"observation", "speech_source",
                            "speech_reverberation_early",
                            "speech_reverberation_tail",
                            "speech_image", "noise_image"}

--------------------------------------------------------------------------
\* C10: speech_source is synchronized exactly when speech_source and
\* sync_speech_source are both enabled; otherwise it is the loaded sources as
\* they are, or absent with speech_source disabled; offset and num_samples
\* are read only for synchronizing; no other stream is synchronized.
C10_SyncExactlyWhenBothEnabled ==
    /\ Returned /\ cfg.speech_source /\ cfg.sync_speech_source =>
          Bundle.speech_source =
              synchronize_speech_source(Loaded("speech_source"), arg.offset,
                                        arg.num_samples.observation)
    /\ Returned /\ cfg.speech_source /\ ~cfg.sync_speech_source =>
          Bundle.speech_source = Loaded("speech_source")
    /\ Returned /\ ~cfg.speech_source => "speech_source" \notin DOMAIN Bundle
    /\ Raised /\ err \in {Exc("KeyError", "offset"), Exc("KeyError", "num_samples")}
          => cfg.speech_source /\ cfg.sync_speech_source
    /\ Returned =>
          /\ \A k \in DOMAIN Bundle \ {"speech_source", "speech_image"} :
                Bundle[k] = Loaded(k)
          /\ "speech_image" \in DOMAIN Bundle =>
                Bundle.speech_image = Add(Loaded("speech_reverberation_early"),
                                          Loaded("speech_reverberation_tail"))

\* a record without offset, transformed with the sources left unsynchronized
C10_Witness ==
    /\ Returned
    /\ cfg.speech_source /\ ~cfg.sync_speech_source
    /\ "offset" \notin DOMAIN arg
    /\ Bundle.speech_source = Nd(<<2, 3>>, <<1, 2, 3, 4, 5, 6>>)

====
